---- MODULE Spec2Model ----
(***************************************************************************)
(* Model of the go-webserver template: the graceful-shutdown lifecycle of  *)
(* the primary and liveness servers (cmd/api/main.go), and the middleware  *)
(* chain of the primary server (cmd/api/middleware.go).                    *)
(*                                                                         *)
(* Time is a discrete clock in seconds.  A timed wait (time.Sleep, the     *)
(* deadline of a Shutdown context) is urgent: the clock does not pass the  *)
(* instant at which the wait ends before the waiting goroutine has taken   *)
(* its step.                                                               *)
(***************************************************************************)
EXTENDS Integers, Sequences, FiniteSets, TLC

(***************************************************************************)
(* Bounds of the model.                                                    *)
(***************************************************************************)
MaxConns == 2
MaxWrappers == 3
MaxCalls == 3
MaxRequests == 2

(***************************************************************************)
(* Program constants.                                                      *)
(***************************************************************************)
PreShutdownDelay == 10
PrimaryShutdownBound == 20
LivenessShutdownBound == 5
StatusOK == 200
RequestTimeout == 60
StatusNotFound == 404

Servers == {"primary", "liveness"}
\* The clients open at most MaxConns connections in all, to either server.
ConnIds(s) == 1..MaxConns
ShutdownBound(s) == IF s = "primary" THEN PrimaryShutdownBound ELSE LivenessShutdownBound

\* The clock advances in steps of the shortest timed wait of the program.
TickStep == LivenessShutdownBound

\* Saturation point of the clock that runs from the reception of the signal.
SinceCap == PreShutdownDelay + PrimaryShutdownBound + TickStep

(***************************************************************************)
(* IsDevelopment: os.Getenv("DEVELOPMENT") parsed by strconv.Atoi.         *)
(* An environment value is a sequence of characters.                       *)
(***************************************************************************)
DigitVal == ("0" :> 0) @@ ("1" :> 1) @@ ("2" :> 2)

\* Values of DEVELOPMENT the process is started with: unset or empty, plain
\* integers, signed and zero-padded integers, and values that are no integer.
EnvValues ==
    { <<>>, <<"0">>, <<"1">>, <<"2">>, <<"+", "1">>, <<"1", "x">> }

RECURSIVE ParseDigits(_, _)
ParseDigits(digits, acc) ==
    IF digits = <<>> THEN acc
    ELSE ParseDigits(Tail(digits), 10 * acc + DigitVal[Head(digits)])

\* strconv.Atoi: an optional sign, then one or more decimal digits.
Atoi(str) ==
    LET signed == Len(str) > 0 /\ str[1] \in {"+", "-"}
        digits == IF signed THEN Tail(str) ELSE str
        ok     == /\ Len(digits) > 0
                  /\ \A i \in 1..Len(digits) : digits[i] \in DOMAIN DigitVal
        mag    == IF ok THEN ParseDigits(digits, 0) ELSE 0
    IN  [err |-> ~ok,
         val |-> IF signed /\ str[1] = "-" THEN 0 - mag ELSE mag]

\* Development mode for every integer other than 0.
IsDevelopmentNonzero(envVar) ==
    IF envVar # <<>>
    THEN Atoi(envVar).err = FALSE /\ Atoi(envVar).val # 0
    ELSE FALSE

\* IsDevelopment(): DEVELOPMENT is set, is an integer, and the integer is 1.
IsDevelopment(envVar) ==
    IF envVar # <<>>
    THEN Atoi(envVar).err = FALSE /\ Atoi(envVar).val = 1
    ELSE FALSE

(***************************************************************************)
(* Routing of a request path by the two routers.                           *)
(***************************************************************************)
Paths == {"/_ah/health/", "/_ah/ready/", "/call/", "/", "/other"}
\* Paths requested by the clients of the lifecycle model.
ProbePaths(s) == IF s = "liveness" THEN {"/_ah/health/", "/other"} ELSE {"/"}

LivenessRoutes == {"/_ah/health/"}
PrimaryRoutes == {"/_ah/health/", "/_ah/ready/", "/call/", "/"}

Route(s, path) ==
    IF s = "liveness"
    THEN (IF path \in LivenessRoutes THEN StatusOK ELSE StatusNotFound)
    ELSE (IF path \in PrimaryRoutes THEN StatusOK ELSE StatusNotFound)

VARIABLES
    envDevelopment, \* value of the DEVELOPMENT environment variable
    procState,      \* "running", "exit0", "fatal" (logger.Fatalf), "killed" (unhandled signal)
    pcMain,         \* position of main()
    pcLive,         \* position of the liveness server's goroutine
    pcSig,          \* position of the signal goroutine (the shutdown coordinator)
    notified,       \* signal.Notify is in effect for SIGINT/SIGTERM
    sigChan,        \* number of signals buffered in sigint (capacity 1)
    allConsClosed,  \* the channel allConsClosed is closed
    srvState,       \* lifecycle state of each http.Server
    conn,           \* state of each connection of each server
    resp,           \* response written on each connection: <<>> or <<path, status>>
    acceptPhase,    \* per server, the positions of its shutting-down goroutine at which it accepted
    shutResult,     \* result of srv.Shutdown: "none", "nil" or "err"
    shutCalls,      \* number of calls of srv.Shutdown per server
    timer,          \* seconds since srv.Shutdown was called, per server
    sinceSig,       \* seconds since the signal was received (-1: not received; saturating)
    calledAt,       \* seconds between the signal and the call of the primary Shutdown (-1: not called)
    openAtBound,    \* primary connections still active when Shutdown returned by its bound
    stages,         \* log of the shutdown stages, in the order they happened
    failed          \* the listener failure that happened: <<>> or <<server, "bind" or "serve">>

lifeVars == <<envDevelopment, procState, pcMain, pcLive, pcSig, notified, sigChan,
              allConsClosed, srvState, conn, resp, acceptPhase,
              shutResult, shutCalls, timer, sinceSig, calledAt, openAtBound, stages,
              failed>>

\* State of one request served by a handler that adapt has composed.
VARIABLES
    middleware,     \* the wrappers given to adapt, in the order of the call
    handler,        \* the composed handler: the wrappers from the outermost to the innermost, then the endpoint
    chainPc,        \* "off", "adapt", "down" (calls going inward), "up" (calls returning), "done"
    depth,          \* number of frames of the handler that are running
    trace,          \* what has run so far: <<"pre", w>>, <<"endpoint">>, <<"post", w>>
    seen            \* per frame entered, the deadline of the request it was given (0: none)

chainVars == <<middleware, handler, chainPc, depth, trace, seen>>

\* State of one request served by the handler of the primary server
\* (main.go: tracingWrapper(getRouter())), as far as the trace header goes.
VARIABLES
    parts,          \* how the inbound header was put together: [form, trace, span, flags]
    inbound,        \* value of X-Cloud-Trace-Context as it arrived (<<>>: absent)
    header,         \* value of X-Cloud-Trace-Context in the request's header map
    serverHandler,  \* srv.Handler: its frames from the outermost to the endpoint
    hdrPc,          \* "off", "serve", "done"
    hdrDepth,       \* number of frames of srv.Handler entered so far
    observed,       \* <<frame, value>>: the header value each frame was given
    nextCalls       \* number of calls of h.ServeHTTP made by fixTracingHeader

hdrVars == <<parts, inbound, header, serverHandler, hdrPc, hdrDepth, observed, nextCalls>>

\* State of one request served by the chain of the router: logHTTPRequest
\* around addRequestTimeout around an endpoint handler (middleware.go).
VARIABLES
    svPc,           \* "off", "logger", "binder", "handler", "binderExit", "loggerExit", "done", "panicked"
    swStatus,       \* statusWriter.status
    swLength,       \* statusWriter.length
    sentStatus,     \* status the underlying ResponseWriter has sent (0: none yet)
    sentBytes,      \* bytes the underlying ResponseWriter has written
    calls,          \* the handler's calls: <<"WriteHeader", status>>, <<"Write", len(b), n>>
    exitKind,       \* how the endpoint handler ended: "none", "return", "panic"
    ctxBound,       \* context.WithTimeout has been called for the request
    ctxDone,        \* the deadline of the bound context has fired
    ctxReleased,    \* cancel() of the bound context has been called
    logLines        \* the access log lines written: <<status, length>>

serveVars == <<svPc, swStatus, swLength, sentStatus, sentBytes, calls, exitKind,
               ctxBound, ctxDone, ctxReleased, logLines>>

\* State of one request served by an endpoint handler (handlers.go).
VARIABLES
    cPath,          \* path of the request
    cParams,        \* values of its url query parameter
    cOutcome,       \* what the outbound call will do
    cPc,            \* "off", "start", "info", "call", "encode", "return", "done"
    cStatus,        \* status of the response (0: none yet)
    cResponse,      \* keys of the response object
    called,         \* keys of the called object
    httpGets        \* number of outbound calls made

callVars == <<cPath, cParams, cOutcome, cPc, cStatus, cResponse, called, httpGets>>

\* State of the labels cache and of the requests that call getServiceLabels.
VARIABLES
    fileOk,         \* the labels file can be opened
    podLabelsNil,   \* podLabels == nil
    podLabels,      \* keys of the map podLabels
    fileOpens,      \* number of calls of os.Open on the labels file
    lblPc,          \* per request: "off", "idle", "check", "make", "open", "scan", "return", "done"
    scanned,        \* per request: lines of the file its scanner has read
    returned        \* per request: keys of the map at the time it was returned

labelVars == <<fileOk, podLabelsNil, podLabels, fileOpens, lblPc, scanned, returned>>

\* The variables of the models of a request, other than the chain's.
reqVars == <<hdrVars, serveVars, callVars, labelVars>>

\* What each model of a request leaves alone.
hdrRest == <<lifeVars, chainVars, serveVars, callVars, labelVars>>
serveRest == <<lifeVars, chainVars, hdrVars, callVars, labelVars>>
callRest == <<lifeVars, chainVars, hdrVars, serveVars, labelVars>>
labelsRest == <<lifeVars, chainVars, hdrVars, serveVars, callVars>>

vars == <<lifeVars, chainVars, reqVars>>

(***************************************************************************)
(* Helpers over the state.                                                 *)
(***************************************************************************)
Range(f) == {f[i] : i \in DOMAIN f}

Alive == procState = "running"

\* srv.shuttingDown()
ShuttingDown(s) == srvState[s] \in {"draining", "stopped"}

\* The listener of s is open and its accept loop runs.
Accepting(s) == Alive /\ srvState[s] = "serving"

ActiveConns(s) == {c \in ConnIds(s) : conn[s][c] = "active"}

\* The connections the clients have opened so far.
OpenedConns == {sc \in Servers \X (1..MaxConns) : conn[sc[1]][sc[2]] # "none"}

\* srv.closeIdleConns() reports true: no connection is left busy.
Quiescent(s) == ActiveConns(s) = {}

\* Stage of the shutdown sequence, as far as server s is concerned.
Phase(s) ==
    IF shutCalls[s] > 0 THEN "shutdown"
    ELSE IF pcSig = "sleep" THEN "delay"
    ELSE IF shutCalls["primary"] > 0 /\ shutResult["primary"] = "none" THEN "drain"
    ELSE IF sinceSig >= 0 THEN "signalled"
    ELSE "running"

\* The stages of which the log of accepted connections keeps a record.
RecordedPhases == {"delay", "drain", "shutdown"}

Polling(s) == IF s = "primary" THEN pcSig = "polling" ELSE pcMain = "livePolling"

\* srv.Close() in the place of srv.Shutdown(): the busy connections are cut too.
CloseAllConns(cs) ==
    [c \in DOMAIN cs |->
        IF cs[c] = "idle" THEN "closed"
        ELSE IF cs[c] = "active" THEN "killed"
        ELSE cs[c]]

\* The connections of a server after srv.closeIdleConns(): idle ones are closed,
\* busy ones are left alone.
CloseIdleConns(cs) ==
    [c \in DOMAIN cs |-> IF cs[c] = "idle" THEN "closed" ELSE cs[c]]

\* A connection whose response has been written: kept alive, or closed by the
\* server ("done") when it is shutting down.
ConnAfterResponse(s) == IF ShuttingDown(s) THEN "done" ELSE "idle"

\* The connections of the process once it has exited.
ConnsAtExit ==
    [s \in Servers |->
        [c \in ConnIds(s) |->
            IF conn[s][c] = "active" THEN "killed"
            ELSE IF conn[s][c] = "idle" THEN "closed"
            ELSE conn[s][c]]]

\* Serve without the check for a shutdown in progress.
StateAfterListenUnchecked(s) == "serving"

\* State of a server whose listener has just been bound by ListenAndServe:
\* Serve refuses to track a listener once the server is shutting down.
StateAfterListen(s) ==
    IF ShuttingDown(s) THEN srvState[s] ELSE "serving"

\* Both listeners served by one http.Server.
ShutdownTargetsShared(s) == Servers

\* The servers a Shutdown of s acts on: each server is an http.Server of its own.
ShutdownTargets(s) == {s}

\* A Shutdown that leaves the listener open.
StateAfterShutdownListening(s) == srvState[s]

\* State of a server on which Shutdown is invoked.
StateAfterShutdownCall(s) ==
    IF srvState[s] = "stopped" THEN "stopped" ELSE "draining"

\* The process ends: its goroutines, its signal handling and its timers are
\* gone with it, and what main has deferred does not run.
Die(how) ==
    /\ procState' = how
    /\ conn' = ConnsAtExit
    /\ pcMain' = "gone"
    /\ pcLive' = "gone"
    /\ pcSig' = "gone"
    /\ notified' = FALSE
    /\ sigChan' = 0
    /\ timer' = [s \in Servers |-> 0]

\* The failure is logged and main goes on to return, running its deferred calls.
FatalfReturns(s, kind) ==
    /\ failed' = <<s, kind>>
    /\ pcMain' = "deferred"
    /\ UNCHANGED <<procState, conn, pcLive, pcSig, notified, sigChan, timer>>

\* logger.Fatalf after ListenAndServe of server s returned an error other than
\* ErrServerClosed: the line is logged and os.Exit(1) ends the process; no
\* deferred call runs.
Fatalf(s, kind) ==
    /\ failed' = <<s, kind>>
    /\ Die("fatal")

\* time.Sleep(10 * time.Second) has returned.
SleepDone == sinceSig >= PreShutdownDelay

\* if !IsDevelopment() { time.Sleep(...) }
DelayApplies == ~IsDevelopment(envDevelopment)

\* main going on as soon as ListenAndServe has returned.
MainProceedsOnServeReturn == TRUE

\* <-allConsClosed can be received from.
MainMayProceed == allConsClosed

\* close(allConsClosed) only after a Shutdown that returned nil.
ClosesChannelOnSuccess(result) == result = "nil"

\* close(allConsClosed) follows the Shutdown whatever it returned.
ClosesChannelAfter(result) == TRUE

\* A Shutdown given a context with no deadline.
BoundNeverElapses(s) == FALSE

\* The context of a Shutdown call is done.
BoundElapsed(s) == timer[s] >= ShutdownBound(s)

(***************************************************************************)
(* Initial state: the process has been started, main has not run yet.      *)
(***************************************************************************)
LifecycleInit ==
    /\ envDevelopment \in EnvValues
    /\ procState = "running"
    /\ pcMain = "startLiveness"
    /\ pcLive = "none"
    /\ pcSig = "none"
    /\ notified = FALSE
    /\ sigChan = 0
    /\ allConsClosed = FALSE
    /\ srvState = [s \in Servers |-> "starting"]
    /\ conn = [s \in Servers |-> [c \in ConnIds(s) |-> "none"]]
    /\ resp = [s \in Servers |-> [c \in ConnIds(s) |-> <<>>]]
    /\ acceptPhase = [s \in Servers |-> {}]
    /\ shutResult = [s \in Servers |-> "none"]
    /\ shutCalls = [s \in Servers |-> 0]
    /\ timer = [s \in Servers |-> 0]
    /\ sinceSig = -1
    /\ calledAt = -1
    /\ openAtBound = {}
    /\ stages = <<>>
    /\ failed = <<>>

(***************************************************************************)
(* main()                                                                  *)
(***************************************************************************)
\* livenessSrv := startLivenessServer(...): the goroutine is spawned and the
\* shutdown of the liveness server is deferred.
MainStartLiveness ==
    /\ Alive /\ pcMain = "startLiveness"
    /\ pcMain' = "telemetry"
    /\ pcLive' = "listen"
    /\ UNCHANGED <<envDevelopment, failed, procState, pcSig, notified, sigChan, 
                   allConsClosed, srvState, conn, resp, acceptPhase, shutResult,
                   shutCalls, timer, sinceSig, calledAt, openAtBound, stages, chainVars, reqVars>>

\* The trace exporter is set up; its failure is fatal.
MainTelemetry ==
    /\ Alive /\ pcMain = "telemetry"
    /\ \E exporterOk \in BOOLEAN :
          IF exporterOk
          THEN /\ pcMain' = "spawnCoordinator"
               /\ UNCHANGED <<procState, conn, pcLive, pcSig, notified, sigChan, timer>>
          ELSE Die("fatal")
    /\ UNCHANGED <<envDevelopment, failed, allConsClosed, srvState, resp,
                   acceptPhase, shutResult, shutCalls, sinceSig, calledAt, openAtBound,
                   stages, chainVars, reqVars>>

\* allConsClosed := make(chan struct{}); go func() { ... }()
MainSpawnCoordinator ==
    /\ Alive /\ pcMain = "spawnCoordinator"
    /\ pcMain' = "listen"
    /\ pcSig' = "notify"
    /\ UNCHANGED <<envDevelopment, failed, procState, pcLive, notified, sigChan, 
                   allConsClosed, srvState, conn, resp, acceptPhase, shutResult,
                   shutCalls, timer, sinceSig, calledAt, openAtBound, stages, chainVars, reqVars>>

\* srv.ListenAndServe() is called: it returns ErrServerClosed at once when the
\* server is already shutting down; otherwise it binds the address, and a
\* failure to bind is fatal.
MainListen ==
    /\ Alive /\ pcMain = "listen"
    /\ IF ShuttingDown("primary")
       THEN /\ pcMain' = "waitClosed"
            /\ UNCHANGED <<failed, procState, conn, pcLive, pcSig, notified, sigChan, timer>>
       ELSE \E bindOk \in BOOLEAN :
              IF bindOk
              THEN /\ pcMain' = "bound"
                   /\ UNCHANGED <<failed, procState, conn, pcLive, pcSig, notified, sigChan, timer>>
              ELSE Fatalf("primary", "bind")
    /\ UNCHANGED <<envDevelopment, allConsClosed, srvState, resp,
                   acceptPhase, shutResult, shutCalls, sinceSig, calledAt, openAtBound,
                   stages, chainVars, reqVars>>

\* srv.Serve(ln): the listener is tracked and the accept loop starts, unless
\* Shutdown has been called in the meantime.
MainServe ==
    /\ Alive /\ pcMain = "bound"
    /\ srvState' = [srvState EXCEPT !["primary"] = StateAfterListen("primary")]
    /\ pcMain' = "serve"
    /\ UNCHANGED <<envDevelopment, failed, procState, pcLive, pcSig, notified, sigChan,
                   allConsClosed, conn, resp, acceptPhase, shutResult,
                   shutCalls, timer, sinceSig, calledAt, openAtBound, stages, chainVars, reqVars>>

\* srv.ListenAndServe() returns ErrServerClosed once Shutdown has closed the listener.
MainServeReturns ==
    /\ Alive /\ pcMain = "serve"
    /\ ShuttingDown("primary")
    /\ pcMain' = "waitClosed"
    /\ UNCHANGED <<envDevelopment, failed, procState, pcLive, pcSig, notified, sigChan,
                   allConsClosed, srvState, conn, resp, acceptPhase,
                   shutResult, shutCalls, timer, sinceSig, calledAt, openAtBound, stages,
                   chainVars, reqVars>>

\* srv.ListenAndServe() returns another error while serving: logger.Fatalf.
MainServeFails ==
    /\ Alive /\ pcMain = "serve"
    /\ srvState["primary"] = "serving"
    /\ Fatalf("primary", "serve")
    /\ UNCHANGED <<envDevelopment, allConsClosed, srvState, resp,
                   acceptPhase, shutResult, shutCalls, sinceSig, calledAt, openAtBound,
                   stages, chainVars, reqVars>>

\* <-allConsClosed; "server shut down cleanly"; main returns and runs its defers.
MainAllConsClosed ==
    /\ Alive /\ pcMain = "waitClosed"
    /\ MainMayProceed
    /\ pcMain' = "deferred"
    /\ UNCHANGED <<envDevelopment, failed, procState, pcLive, pcSig, notified, sigChan,
                   allConsClosed, srvState, conn, resp, acceptPhase,
                   shutResult, shutCalls, timer, sinceSig, calledAt, openAtBound, stages,
                   chainVars, reqVars>>

(***************************************************************************)
(* srv.Shutdown(ctx), for either server.                                   *)
(***************************************************************************)
\* The call: the server is marked as shutting down, its listener is closed and
\* the idle connections are closed.  With no busy connection the call returns
\* nil at once; otherwise the caller polls.
ShutdownCall(s, stageCall, stageRet) ==
    /\ shutCalls' = [shutCalls EXCEPT ![s] = @ + 1]
    /\ timer' = [timer EXCEPT ![s] = 0]
    /\ conn' = [conn EXCEPT ![s] = CloseIdleConns(conn[s])]
    /\ srvState' = [x \in Servers |->
                        IF x \notin ShutdownTargets(s) THEN srvState[x]
                        ELSE IF Quiescent(s) THEN "stopped"
                        ELSE StateAfterShutdownCall(x)]
    /\ IF Quiescent(s)
       THEN /\ shutResult' = [shutResult EXCEPT ![s] = "nil"]
            /\ stages' = stages \o <<stageCall, stageRet>>
       ELSE /\ UNCHANGED shutResult
            /\ stages' = Append(stages, stageCall)

\* A poll finds no busy connection: Shutdown returns nil.
ShutdownPollReturns(s, stageRet) ==
    /\ Quiescent(s)
    /\ srvState' = [srvState EXCEPT ![s] = "stopped"]
    /\ shutResult' = [shutResult EXCEPT ![s] = "nil"]
    /\ conn' = [conn EXCEPT ![s] = CloseIdleConns(conn[s])]
    /\ stages' = Append(stages, stageRet)
    /\ UNCHANGED <<shutCalls, timer>>

\* The context is done first: Shutdown returns ctx.Err(), leaving the busy
\* connections as they are.
ShutdownTimesOut(s, stageRet) ==
    /\ BoundElapsed(s)
    /\ srvState' = [srvState EXCEPT ![s] = "stopped"]
    /\ shutResult' = [shutResult EXCEPT ![s] = "err"]
    /\ stages' = Append(stages, stageRet)
    /\ UNCHANGED <<shutCalls, timer, conn>>

(***************************************************************************)
(* main(), continued: the deferred shutdownLivenessServer and the exit.    *)
(***************************************************************************)
\* ctx with a 5 s timeout; srv.Shutdown(ctx) is called on the liveness server.
MainShutdownLiveness ==
    /\ Alive /\ pcMain = "deferred"
    /\ ShutdownCall("liveness", "livenessShutdown", "livenessReturned")
    /\ pcMain' = IF Quiescent("liveness") THEN "liveReturned" ELSE "livePolling"
    /\ UNCHANGED <<envDevelopment, failed, procState, pcLive, pcSig, notified, sigChan,
                   allConsClosed, resp, acceptPhase, sinceSig, calledAt,
                   openAtBound, chainVars, reqVars>>

MainLivenessPollReturns ==
    /\ Alive /\ pcMain = "livePolling"
    /\ ShutdownPollReturns("liveness", "livenessReturned")
    /\ pcMain' = "liveReturned"
    /\ UNCHANGED <<envDevelopment, failed, procState, pcLive, pcSig, notified, sigChan,
                   allConsClosed, resp, acceptPhase, sinceSig, calledAt,
                   openAtBound, chainVars, reqVars>>

MainLivenessTimesOut ==
    /\ Alive /\ pcMain = "livePolling"
    /\ ShutdownTimesOut("liveness", "livenessReturned")
    /\ pcMain' = "liveReturned"
    /\ UNCHANGED <<envDevelopment, failed, procState, pcLive, pcSig, notified, sigChan,
                   allConsClosed, resp, acceptPhase, sinceSig, calledAt,
                   openAtBound, chainVars, reqVars>>

\* The result is logged, logger.Sync() runs, main has returned: exit status 0.
MainExit ==
    /\ Alive /\ pcMain = "liveReturned"
    /\ Die("exit0")
    /\ stages' = Append(stages, "exit")
    /\ UNCHANGED <<envDevelopment, failed, allConsClosed, srvState, resp,
                   acceptPhase, shutResult, shutCalls, sinceSig, calledAt, openAtBound,
                   chainVars, reqVars>>

(***************************************************************************)
(* The goroutine of startLivenessServer.                                   *)
(***************************************************************************)
LiveListen ==
    /\ Alive /\ pcLive = "listen"
    /\ IF ShuttingDown("liveness")
       THEN /\ pcLive' = "done"
            /\ UNCHANGED <<failed, procState, conn, pcMain, pcSig, notified, sigChan, timer>>
       ELSE \E bindOk \in BOOLEAN :
              IF bindOk
              THEN /\ pcLive' = "bound"
                   /\ UNCHANGED <<failed, procState, conn, pcMain, pcSig, notified, sigChan, timer>>
              ELSE Fatalf("liveness", "bind")
    /\ UNCHANGED <<envDevelopment, allConsClosed, srvState, resp,
                   acceptPhase, shutResult, shutCalls, sinceSig, calledAt, openAtBound,
                   stages, chainVars, reqVars>>

LiveServe ==
    /\ Alive /\ pcLive = "bound"
    /\ srvState' = [srvState EXCEPT !["liveness"] = StateAfterListen("liveness")]
    /\ pcLive' = "serve"
    /\ UNCHANGED <<envDevelopment, failed, procState, pcMain, pcSig, notified, sigChan,
                   allConsClosed, conn, resp, acceptPhase, shutResult,
                   shutCalls, timer, sinceSig, calledAt, openAtBound, stages, chainVars, reqVars>>

\* ListenAndServe returns ErrServerClosed: the goroutine ends.
LiveServeReturns ==
    /\ Alive /\ pcLive = "serve"
    /\ ShuttingDown("liveness")
    /\ pcLive' = "done"
    /\ UNCHANGED <<envDevelopment, failed, procState, pcMain, pcSig, notified, sigChan,
                   allConsClosed, srvState, conn, resp, acceptPhase,
                   shutResult, shutCalls, timer, sinceSig, calledAt, openAtBound, stages,
                   chainVars, reqVars>>

\* ListenAndServe returns another error while serving: logger.Fatalf.
LiveServeFails ==
    /\ Alive /\ pcLive = "serve"
    /\ srvState["liveness"] = "serving"
    /\ Fatalf("liveness", "serve")
    /\ UNCHANGED <<envDevelopment, allConsClosed, srvState, resp,
                   acceptPhase, shutResult, shutCalls, sinceSig, calledAt, openAtBound,
                   stages, chainVars, reqVars>>

(***************************************************************************)
(* The signal goroutine of main: the shutdown coordinator.                 *)
(***************************************************************************)
\* sigint := make(chan os.Signal, 1); signal.Notify(sigint, os.Interrupt, syscall.SIGTERM)
SigNotify ==
    /\ Alive /\ pcSig = "notify"
    /\ notified' = TRUE
    /\ pcSig' = "wait"
    /\ UNCHANGED <<envDevelopment, failed, procState, pcMain, pcLive, sigChan, 
                   allConsClosed, srvState, conn, resp, acceptPhase, shutResult,
                   shutCalls, timer, sinceSig, calledAt, openAtBound, stages, chainVars, reqVars>>

\* <-sigint; then the delay applies unless IsDevelopment().
SigReceive ==
    /\ Alive /\ pcSig = "wait"
    /\ sigChan > 0
    /\ sigChan' = sigChan - 1
    /\ sinceSig' = 0
    /\ stages' = Append(stages, "signal")
    /\ pcSig' = IF DelayApplies THEN "sleep" ELSE "callShutdown"
    /\ UNCHANGED <<envDevelopment, failed, procState, pcMain, pcLive, notified, 
                   allConsClosed, srvState, conn, resp, acceptPhase, shutResult,
                   shutCalls, timer, calledAt, openAtBound, chainVars, reqVars>>

\* time.Sleep(10 * time.Second) returns.
SigWake ==
    /\ Alive /\ pcSig = "sleep"
    /\ SleepDone
    /\ stages' = Append(stages, "delayDone")
    /\ pcSig' = "callShutdown"
    /\ UNCHANGED <<envDevelopment, failed, procState, pcMain, pcLive, notified, sigChan,
                   allConsClosed, srvState, conn, resp, acceptPhase,
                   shutResult, shutCalls, timer, sinceSig, calledAt, openAtBound,
                   chainVars, reqVars>>

\* ctx with a 20 s timeout; srv.Shutdown(ctx) is called on the primary server.
SigShutdownPrimary ==
    /\ Alive /\ pcSig = "callShutdown"
    /\ ShutdownCall("primary", "primaryShutdown", "primaryReturned")
    /\ calledAt' = sinceSig
    /\ pcSig' = IF Quiescent("primary") THEN "returned" ELSE "polling"
    /\ UNCHANGED <<envDevelopment, failed, procState, pcMain, pcLive, notified, sigChan,
                   allConsClosed, resp, acceptPhase, sinceSig, openAtBound,
                   chainVars, reqVars>>

SigPrimaryPollReturns ==
    /\ Alive /\ pcSig = "polling"
    /\ ShutdownPollReturns("primary", "primaryReturned")
    /\ pcSig' = "returned"
    /\ UNCHANGED <<envDevelopment, failed, procState, pcMain, pcLive, notified, sigChan,
                   allConsClosed, resp, acceptPhase, sinceSig, calledAt,
                   openAtBound, chainVars, reqVars>>

SigPrimaryTimesOut ==
    /\ Alive /\ pcSig = "polling"
    /\ ShutdownTimesOut("primary", "primaryReturned")
    /\ openAtBound' = ActiveConns("primary")
    /\ pcSig' = "returned"
    /\ UNCHANGED <<envDevelopment, failed, procState, pcMain, pcLive, notified, sigChan,
                   allConsClosed, resp, acceptPhase, sinceSig, calledAt,
                   chainVars, reqVars>>

\* The coordinator waits for the next signal once it is through.
CoordinatorLoops == "wait"

\* The function of the signal goroutine returns after its deferred
\* signal.Stop: the goroutine ends.
CoordinatorAfterStop == "done"

\* The error, if any, is logged; close(allConsClosed).
SigCloseChan ==
    /\ Alive /\ pcSig = "returned"
    /\ allConsClosed' = (allConsClosed \/ ClosesChannelAfter(shutResult["primary"]))
    /\ pcSig' = "stop"
    /\ UNCHANGED <<envDevelopment, failed, procState, pcMain, pcLive, notified, sigChan,
                   srvState, conn, resp, acceptPhase, shutResult, shutCalls,
                   timer, sinceSig, calledAt, openAtBound, stages, chainVars, reqVars>>

\* The deferred signal.Stop(sigint): the default disposition is restored.
SigStop ==
    /\ Alive /\ pcSig = "stop"
    /\ notified' = FALSE
    /\ pcSig' = CoordinatorAfterStop
    /\ UNCHANGED <<envDevelopment, failed, procState, pcMain, pcLive, sigChan, 
                   allConsClosed, srvState, conn, resp, acceptPhase, shutResult,
                   shutCalls, timer, sinceSig, calledAt, openAtBound, stages, chainVars, reqVars>>

(***************************************************************************)
(* The environment: signals, clients and the clock.                        *)
(***************************************************************************)
\* SIGINT or SIGTERM is sent to the process, any number of times.  With
\* signal.Notify in effect the signal is put in sigint, or dropped when the
\* buffer is full; with the default disposition it ends the process.
SendSignal ==
    /\ Alive
    /\ IF notified
       THEN /\ sigChan' = 1
            /\ UNCHANGED <<procState, conn, pcMain, pcLive, pcSig, notified, timer>>
       ELSE Die("killed")
    /\ UNCHANGED <<envDevelopment, failed, allConsClosed, srvState, resp, acceptPhase,
                   shutResult, shutCalls, sinceSig, calledAt, openAtBound, stages,
                   chainVars, reqVars>>

\* A client connects and sends a request: the accept loop takes the connection.
Accept(s, c) ==
    /\ Accepting(s)
    /\ conn[s][c] = "none"
    /\ \A d \in ConnIds(s) : d < c => conn[s][d] # "none"
    /\ Cardinality(OpenedConns) < MaxConns
    /\ conn' = [conn EXCEPT ![s][c] = "active"]
    /\ acceptPhase' = [acceptPhase EXCEPT ![s] = @ \cup ({Phase(s)} \cap RecordedPhases)]
    /\ UNCHANGED <<envDevelopment, failed, procState, pcMain, pcLive, pcSig, notified, sigChan,
                   allConsClosed, srvState, resp, shutResult, shutCalls,
                   timer, sinceSig, calledAt, openAtBound, stages, chainVars, reqVars>>

\* The handler of the request returns and the response is written; the
\* connection is kept alive unless the server is shutting down.
HandlerFinish(s, c) ==
    /\ Alive
    /\ conn[s][c] = "active"
    /\ \E path \in ProbePaths(s) :
          resp' = [resp EXCEPT ![s][c] = <<path, Route(s, path)>>]
    /\ conn' = [conn EXCEPT ![s][c] = ConnAfterResponse(s)]
    /\ UNCHANGED <<envDevelopment, failed, procState, pcMain, pcLive, pcSig, notified, sigChan,
                   allConsClosed, srvState, acceptPhase, shutResult,
                   shutCalls, timer, sinceSig, calledAt, openAtBound, stages, chainVars, reqVars>>

\* A goroutine of the program can take a step that waits for nothing, or a
\* timed wait ends now: such a step is taken before the clock advances.
Urgent ==
    \/ pcMain \in {"startLiveness", "telemetry", "spawnCoordinator", "listen",
                   "bound", "deferred", "liveReturned"}
    \/ pcMain = "serve" /\ ShuttingDown("primary")
    \/ pcMain = "waitClosed" /\ MainMayProceed
    \/ pcLive \in {"listen", "bound"}
    \/ pcLive = "serve" /\ ShuttingDown("liveness")
    \/ pcSig \in {"notify", "callShutdown", "returned", "stop"}
    \/ pcSig = "wait" /\ sigChan > 0
    \/ pcSig = "sleep" /\ SleepDone
    \/ \E s \in Servers : Polling(s) /\ (BoundElapsed(s) \/ Quiescent(s))

Saturate(n, cap) == IF n + TickStep < cap THEN n + TickStep ELSE cap

\* The clock advances.
Tick ==
    /\ Alive /\ ~Urgent
    /\ sinceSig >= 0
    /\ sinceSig' = Saturate(sinceSig, SinceCap)
    /\ timer' = [s \in Servers |->
                    IF Polling(s) THEN Saturate(timer[s], ShutdownBound(s)) ELSE timer[s]]
    /\ <<sinceSig', timer'>> # <<sinceSig, timer>>
    /\ UNCHANGED <<envDevelopment, failed, procState, pcMain, pcLive, pcSig, notified, sigChan,
                   allConsClosed, srvState, conn, resp, acceptPhase,
                   shutResult, shutCalls, calledAt, openAtBound, stages, chainVars, reqVars>>

LifecycleNext ==
    \/ MainStartLiveness
    \/ MainTelemetry
    \/ MainSpawnCoordinator
    \/ MainListen
    \/ MainServe
    \/ MainServeReturns
    \/ MainServeFails
    \/ MainAllConsClosed
    \/ MainShutdownLiveness
    \/ MainLivenessPollReturns
    \/ MainLivenessTimesOut
    \/ MainExit
    \/ LiveListen
    \/ LiveServe
    \/ LiveServeReturns
    \/ LiveServeFails
    \/ SigNotify
    \/ SigReceive
    \/ SigWake
    \/ SigShutdownPrimary
    \/ SigPrimaryPollReturns
    \/ SigPrimaryTimesOut
    \/ SigCloseChan
    \/ SigStop
    \/ SendSignal
    \/ \E s \in Servers : \E c \in ConnIds(s) : Accept(s, c)
    \/ \E s \in Servers : \E c \in ConnIds(s) : HandlerFinish(s, c)
    \/ Tick

(***************************************************************************)
(* The middleware chain (middleware.go): adapt, addRequestTimeout and      *)
(* logHTTPRequest, and one request served by the composed handler.         *)
(***************************************************************************)
NoDeadline == 0

Wrappers == {"addRequestTimeout", "logHTTPRequest", "other"}

\* The handler of an endpoint, before any wrapping.
Endpoint == <<"endpoint">>

\* router.Handle(path, adapt(handler, addRequestTimeout(), logHTTPRequest()))
RouterMiddleware == <<"addRequestTimeout", "logHTTPRequest">>

RECURSIVE ListsUpTo(_, _)
ListsUpTo(S, n) ==
    IF n = 0 THEN {<<>>}
    ELSE LET shorter == ListsUpTo(S, n - 1)
         IN  shorter \cup {Append(q, w) : q \in shorter, w \in S}

\* middlewareFn(h): the returned handler runs the wrapper around h.
Wrap(w, h) == <<w>> \o h

\* The wrappers applied from the last to the first: the first is outermost.
RECURSIVE AdaptFirstOutermost(_, _)
AdaptFirstOutermost(h, mws) ==
    IF mws = <<>> THEN h
    ELSE Wrap(Head(mws), AdaptFirstOutermost(h, Tail(mws)))

\* for _, middlewareFn := range middleware { h = middlewareFn(h) }; return h
RECURSIVE Adapt(_, _)
Adapt(h, mws) ==
    IF mws = <<>> THEN h
    ELSE Adapt(Wrap(Head(mws), h), Tail(mws))

\* addRequestTimeout without r = r.WithContext(ctx).
DeadlineForInnerUnbound(w, deadline) == deadline

\* The deadline of the request a wrapper hands to the handler it wraps:
\* addRequestTimeout binds a context with the 60 s timeout to it (an earlier
\* deadline of the parent context stays), the other wrappers pass the
\* request they were given.
DeadlineForInner(w, deadline) ==
    IF w = "addRequestTimeout"
    THEN (IF deadline = NoDeadline \/ deadline > RequestTimeout
          THEN RequestTimeout ELSE deadline)
    ELSE deadline

ChainOff ==
    /\ middleware = <<>>
    /\ handler = <<>>
    /\ chainPc = "off"
    /\ depth = 0
    /\ trace = <<>>
    /\ seen = <<>>

ChainInit ==
    /\ middleware \in ListsUpTo(Wrappers, MaxWrappers)
    /\ handler = <<>>
    /\ chainPc = "adapt"
    /\ depth = 0
    /\ trace = <<>>
    /\ seen = <<>>

\* adapt(h, middleware...) is called when the router is built.
ChainAdapt ==
    /\ chainPc = "adapt"
    /\ handler' = Adapt(Endpoint, middleware)
    /\ chainPc' = "down"
    /\ UNCHANGED <<middleware, depth, trace, seen, lifeVars, reqVars>>

\* ServeHTTP of the next frame is called with a request: a wrapper does what it
\* does before calling the handler it wraps.
ChainEnter ==
    /\ chainPc = "down"
    /\ depth + 1 < Len(handler)
    /\ depth' = depth + 1
    /\ seen' = Append(seen, IF depth = 0 THEN NoDeadline
                            ELSE DeadlineForInner(handler[depth], seen[depth]))
    /\ trace' = Append(trace, <<"pre", handler[depth + 1]>>)
    /\ UNCHANGED <<middleware, handler, chainPc, lifeVars, reqVars>>

\* The innermost frame is the endpoint: it runs and returns.
ChainEndpoint ==
    /\ chainPc = "down"
    /\ depth + 1 = Len(handler)
    /\ seen' = Append(seen, IF depth = 0 THEN NoDeadline
                            ELSE DeadlineForInner(handler[depth], seen[depth]))
    /\ trace' = Append(trace, <<"endpoint">>)
    /\ chainPc' = "up"
    /\ UNCHANGED <<middleware, handler, depth, lifeVars, reqVars>>

\* h.ServeHTTP returns into the wrapper around it, which does what it does
\* after the call (cancel(), the access log line) and returns.
ChainReturn ==
    /\ chainPc = "up"
    /\ depth > 0
    /\ trace' = Append(trace, <<"post", handler[depth]>>)
    /\ depth' = depth - 1
    /\ UNCHANGED <<middleware, handler, chainPc, seen, lifeVars, reqVars>>

\* The outermost frame has returned: the request is served.
ChainDone ==
    /\ chainPc = "up"
    /\ depth = 0
    /\ chainPc' = "done"
    /\ UNCHANGED <<middleware, handler, depth, trace, seen, lifeVars, reqVars>>

ChainNext ==
    \/ ChainAdapt
    \/ ChainEnter
    \/ ChainEndpoint
    \/ ChainReturn
    \/ ChainDone

(***************************************************************************)
(***************************************************************************)
(* The trace header normalizer (main.go: fixTracingHeader) and the handler *)
(* of the primary server it is the outermost frame of.  A header value is  *)
(* a sequence of characters; an unsigned 64-bit integer is the sequence of *)
(* its hexadecimal digits without leading zeros (<<>> is zero), since its  *)
(* values do not fit the integers of the model checker.                    *)
(***************************************************************************)
Rep(c, n) == [i \in 1..n |-> c]

\* strconv.ParseUint: '0'..'9', 'a'..'z' and 'A'..'Z' are the digits 0..35.
CharDigit ==
    ("0" :> 0) @@ ("1" :> 1) @@ ("2" :> 2) @@ ("3" :> 3) @@ ("4" :> 4) @@
    ("5" :> 5) @@ ("6" :> 6) @@ ("7" :> 7) @@ ("8" :> 8) @@ ("9" :> 9) @@
    ("a" :> 10) @@ ("b" :> 11) @@ ("f" :> 15) @@ ("F" :> 15) @@ ("g" :> 16)

DecimalChars == <<"0", "1", "2", "3", "4", "5", "6", "7", "8", "9">>

\* math.MaxUint64 in decimal and the number of its hexadecimal digits.
MaxUint64Decimal == <<1, 8, 4, 4, 6, 7, 4, 4, 0, 7, 3, 7, 0, 9, 5, 5, 1, 6, 1, 5>>
MaxUint64HexDigits == 16
Uint32HexDigits == 8

RECURSIVE StripZeros(_)
StripZeros(ds) ==
    IF ds # <<>> /\ Head(ds) = 0 THEN StripZeros(Tail(ds)) ELSE ds

\* ds <= es for two digit sequences of the same length.
RECURSIVE DigitsLeq(_, _)
DigitsLeq(ds, es) ==
    \/ ds = <<>>
    \/ Head(ds) < Head(es)
    \/ Head(ds) = Head(es) /\ DigitsLeq(Tail(ds), Tail(es))

\* The value of the digits ds in the given base is at most math.MaxUint64.
FitsUint64(ds, base) ==
    LET sig == StripZeros(ds)
    IN  IF base = 16 THEN Len(sig) <= MaxUint64HexDigits
        ELSE \/ Len(sig) < Len(MaxUint64Decimal)
             \/ Len(sig) = Len(MaxUint64Decimal) /\ DigitsLeq(sig, MaxUint64Decimal)

\* quotient and remainder of the digits ds (in base b) by m, digit by digit.
RECURSIVE LongDiv(_, _, _, _, _)
LongDiv(ds, b, m, q, r) ==
    IF ds = <<>> THEN [quot |-> StripZeros(q), rem |-> r]
    ELSE LET cur == r * b + Head(ds)
         IN  LongDiv(Tail(ds), b, m, Append(q, cur \div m), cur % m)

\* strconv.ParseUint(s, base, 64) for base 10 and 16: an error for the empty
\* string, for a character that is no digit of the base, and for a value
\* above math.MaxUint64; otherwise the value, as its digits in the base.
ParseUint(s, base) ==
    LET syntaxOk == /\ s # <<>>
                    /\ \A i \in 1..Len(s) :
                          s[i] \in DOMAIN CharDigit /\ CharDigit[s[i]] < base
        ds       == IF syntaxOk THEN [i \in 1..Len(s) |-> CharDigit[s[i]]] ELSE <<>>
        ok       == syntaxOk /\ FitsUint64(ds, base)
    IN  [err |-> ~ok, val |-> IF ok THEN StripZeros(ds) ELSE <<>>]

\* uint32(n): the 32 low bits of n.
Uint32Whole(n) == n

Uint32(n) ==
    IF Len(n) <= Uint32HexDigits THEN n
    ELSE StripZeros(SubSeq(n, Len(n) - Uint32HexDigits + 1, Len(n)))

\* strconv.FormatUint(n, 10): the decimal digits of n, the last one first,
\* by repeated division by 10; "0" for zero.
RECURSIVE FormatDigits(_)
FormatDigits(n) ==
    IF n = <<>> THEN <<>>
    ELSE LET d == LongDiv(n, 16, 10, <<>>, 0)
         IN  Append(FormatDigits(d.quot), DecimalChars[d.rem + 1])

FormatUint(n) == IF n = <<>> THEN <<"0">> ELSE FormatDigits(n)

\* strings.Index(h, c) for a single character: the first position of c in h,
\* counted from 1; 0 when c does not occur (Go: -1).
Index(h, c) ==
    IF \E i \in 1..Len(h) : h[i] = c
    THEN CHOOSE i \in 1..Len(h) : h[i] = c /\ \A j \in 1..(i - 1) : h[j] # c
    ELSE 0

\* The span id is rewritten whenever it parses as hexadecimal.
ConvertsWheneverHex(dec, hex) == ~hex.err

\* if err != nil { n, err := strconv.ParseUint(spanstr, 16, 64); if err == nil {...} }
ConvertsSpan(dec, hex) == dec.err /\ ~hex.err

\* The header fixTracingHeader leaves in the request for a header h
\* (<<>>: r.Header.Get returned ""; nothing is set then).
FixTracingHeader(h) ==
    LET slash == Index(h, "/")
    IN  IF h = <<>> \/ slash = 0 THEN h
        ELSE LET tracestr  == SubSeq(h, 1, slash - 1)
                 rest      == SubSeq(h, slash + 1, Len(h))
                 semicolon == Index(rest, ";")
             IN  IF semicolon = 0 THEN h
                 ELSE LET spanstr == SubSeq(rest, 1, semicolon - 1)
                          flags   == SubSeq(rest, semicolon + 1, Len(rest))
                          dec     == ParseUint(spanstr, 10)
                          hex     == ParseUint(spanstr, 16)
                          newspan == IF ConvertsSpan(dec, hex)
                                     THEN FormatUint(Uint32(hex.val))
                                     ELSE spanstr
                      IN  tracestr \o <<"/">> \o newspan \o <<";">> \o flags

\* Inbound headers: a trace id (without '/'), a span id (without '/' and ';')
\* and flags, joined by '/' and ';' ...
TraceIds == { <<"a", "b">>, <<>>, <<"a", ";">> }

SpanIds ==
    { <<>>, <<"0">>, <<"1">>, <<"1", "0">>, <<"f", "f">>, <<"F", "f">>, <<"1", "a">>,
      <<"g">>, <<"+", "1">>, <<"0", "x", "f">>,
      Rep("0", 3) \o <<"f", "f">>,
      <<"1">> \o Rep("0", 8),
      <<"a">> \o Rep("0", 8),
      <<"1", "b">> \o Rep("f", 7),
      Rep("f", 16),
      <<"0">> \o Rep("f", 16),
      Rep("f", 17),
      <<"1", "8", "4", "4", "6", "7", "4", "4", "0", "7", "3", "7", "0", "9", "5", "5", "1", "6", "1", "5">>,
      <<"1", "8", "4", "4", "6", "7", "4", "4", "0", "7", "3", "7", "0", "9", "5", "5", "1", "6", "1", "6">> }

FlagValues == { <<"o", "=", "1">>, <<>>, <<";", "/">> }

JoinHeader(p) == p.trace \o <<"/">> \o p.span \o <<";">> \o p.flags

WellFormedParts ==
    [form : {"wellformed"}, trace : TraceIds, span : SpanIds, flags : FlagValues]

\* ... and headers without one of the separators, or absent.
MalformedHeaders ==
    { <<>>, <<"a", "b">>, <<"f", "f", ";", "1">>, <<"a", "/", "f", "f">>,
      <<"a", ";", "/", "f", "f">> }

MalformedParts ==
    [form : {"malformed"}, trace : MalformedHeaders, span : {<<>>}, flags : {<<>>}]

InboundOf(p) == IF p.form = "wellformed" THEN JoinHeader(p) ELSE p.trace

\* tracingWrapper with the normalizer inside the tracing handler.
TracingWrapperInside(h) == <<"ochttp.Handler", "fixTracingHeader">> \o h

\* tracingWrapper(handler): fixTracingHeader(&ochttp.Handler{Handler: handler}).
TracingWrapper(h) == <<"fixTracingHeader", "ochttp.Handler">> \o h

\* getRouter(): the router, then the handler adapt composed for the route.
Router == <<"mux.Router">> \o Adapt(Endpoint, RouterMiddleware)

\* srv.Handler
ServerHandler == TracingWrapper(Router)

HeaderOff ==
    /\ parts = [form |-> "malformed", trace |-> <<>>, span |-> <<>>, flags |-> <<>>]
    /\ inbound = <<>>
    /\ header = <<>>
    /\ serverHandler = <<>>
    /\ hdrPc = "off"
    /\ hdrDepth = 0
    /\ observed = <<>>
    /\ nextCalls = 0

HeaderInit ==
    /\ parts \in WellFormedParts \cup MalformedParts
    /\ inbound = InboundOf(parts)
    /\ header = inbound
    /\ serverHandler = ServerHandler
    /\ hdrPc = "serve"
    /\ hdrDepth = 0
    /\ observed = <<>>
    /\ nextCalls = 0

\* The frame of fixTracingHeader runs: it rewrites the header, then calls
\* h.ServeHTTP(w, r) of the handler it wraps.
HdrNormalize ==
    /\ hdrPc = "serve"
    /\ hdrDepth < Len(serverHandler)
    /\ serverHandler[hdrDepth + 1] = "fixTracingHeader"
    /\ header' = FixTracingHeader(header)
    /\ nextCalls' = nextCalls + 1
    /\ hdrDepth' = hdrDepth + 1
    /\ UNCHANGED <<parts, inbound, serverHandler, hdrPc, observed, hdrRest>>

\* Any other frame is entered with the request: it is given the header as it
\* is in the request at that moment.
HdrObserve ==
    /\ hdrPc = "serve"
    /\ hdrDepth < Len(serverHandler)
    /\ serverHandler[hdrDepth + 1] # "fixTracingHeader"
    /\ observed' = Append(observed, <<serverHandler[hdrDepth + 1], header>>)
    /\ hdrDepth' = hdrDepth + 1
    /\ UNCHANGED <<parts, inbound, header, serverHandler, hdrPc, nextCalls,
                   hdrRest>>

\* The endpoint has run; the frames return.
HdrDone ==
    /\ hdrPc = "serve"
    /\ hdrDepth = Len(serverHandler)
    /\ hdrPc' = "done"
    /\ UNCHANGED <<parts, inbound, header, serverHandler, hdrDepth, observed,
                   nextCalls, hdrRest>>

HeaderNext ==
    \/ HdrNormalize
    \/ HdrObserve
    \/ HdrDone

(***************************************************************************)
(* One request through the chain of the router (middleware.go):            *)
(* logHTTPRequest with its statusWriter, around addRequestTimeout, around  *)
(* an endpoint handler that calls WriteHeader and Write as it likes and    *)
(* then returns or panics.                                                 *)
(***************************************************************************)
\* Statuses a handler writes and sizes of the bodies it passes to Write.
HandlerStatuses == {StatusOK, StatusNotFound}
BodySizes == {0, 2}

\* statusWriter.WriteHeader: w.status = status
StatusAfterWriteHeader(status, code) == code

\* statusWriter.Write: if w.status == 0 { w.status = http.StatusOK }
StatusAfterWrite(status) == IF status = 0 THEN StatusOK ELSE status

\* The length of the slice handed to Write is counted, written or not.
LengthAfterWriteAll(length, size, n) == length + size

\* n, err := w.ResponseWriter.Write(b); w.length += n
LengthAfterWrite(length, size, n) == length + n

\* The underlying http.ResponseWriter: the first WriteHeader sets the status
\* of the response, a later one is ignored; a Write before any WriteHeader
\* sends 200, and so does the return of a handler that wrote nothing.
SentAfterWriteHeader(sent, code) == IF sent = 0 THEN code ELSE sent
SentImplicit(sent) == IF sent = 0 THEN StatusOK ELSE sent

\* cancel() called at the end of the function body only.
CancelOnReturnOnly(exit) == exit = "return"

\* defer cancel(): runs when the wrapped handler returns and when it panics.
CancelRuns(exit) == exit \in {"return", "panic"}

\* logger.Infof follows h.ServeHTTP(&sw, r) in the function body: a panic of
\* the wrapped handler skips it.
LogsLine(exit) == exit = "return"

ServeOff ==
    /\ svPc = "off"
    /\ swStatus = 0
    /\ swLength = 0
    /\ sentStatus = 0
    /\ sentBytes = 0
    /\ calls = <<>>
    /\ exitKind = "none"
    /\ ctxBound = FALSE
    /\ ctxDone = FALSE
    /\ ctxReleased = FALSE
    /\ logLines = <<>>

ServeInit ==
    /\ svPc = "logger"
    /\ swStatus = 0
    /\ swLength = 0
    /\ sentStatus = 0
    /\ sentBytes = 0
    /\ calls = <<>>
    /\ exitKind = "none"
    /\ ctxBound = FALSE
    /\ ctxDone = FALSE
    /\ ctxReleased = FALSE
    /\ logLines = <<>>

\* logHTTPRequest: start := time.Now(); sw := statusWriter{ResponseWriter: w};
\* h.ServeHTTP(&sw, r) enters the handler addRequestTimeout returned.
SvLoggerEnter ==
    /\ svPc = "logger"
    /\ swStatus' = 0
    /\ swLength' = 0
    /\ svPc' = "binder"
    /\ UNCHANGED <<sentStatus, sentBytes, calls, exitKind, ctxBound, ctxDone,
                   ctxReleased, logLines, serveRest>>

\* addRequestTimeout: ctx, cancel := context.WithTimeout(...); defer cancel();
\* r = r.WithContext(ctx); h.ServeHTTP(w, r) enters the endpoint handler.
SvBinderEnter ==
    /\ svPc = "binder"
    /\ ctxBound' = TRUE
    /\ svPc' = "handler"
    /\ UNCHANGED <<swStatus, swLength, sentStatus, sentBytes, calls, exitKind,
                   ctxDone, ctxReleased, logLines, serveRest>>

\* The endpoint handler calls w.WriteHeader(code): statusWriter.WriteHeader.
SvWriteHeader(code) ==
    /\ svPc = "handler"
    /\ Len(calls) < MaxCalls
    /\ swStatus' = StatusAfterWriteHeader(swStatus, code)
    /\ sentStatus' = SentAfterWriteHeader(sentStatus, code)
    /\ calls' = Append(calls, <<"WriteHeader", code>>)
    /\ UNCHANGED <<svPc, swLength, sentBytes, exitKind, ctxBound, ctxDone,
                   ctxReleased, logLines, serveRest>>

\* The endpoint handler calls w.Write(b) with len(b) = size: statusWriter.Write;
\* the underlying writer writes n bytes (n < size: it returns an error).
SvWrite(size, n) ==
    /\ svPc = "handler"
    /\ Len(calls) < MaxCalls
    /\ swStatus' = StatusAfterWrite(swStatus)
    /\ sentStatus' = SentImplicit(sentStatus)
    /\ sentBytes' = sentBytes + n
    /\ swLength' = LengthAfterWrite(swLength, size, n)
    /\ calls' = Append(calls, <<"Write", size, n>>)
    /\ UNCHANGED <<svPc, exitKind, ctxBound, ctxDone, ctxReleased, logLines,
                   serveRest>>

\* The frame of the binder gives up at the deadline and returns.
AbortsAtDeadline(pc) == "binderExit"

\* The frame of addRequestTimeout is inside h.ServeHTTP(w, r), a plain call:
\* the deadline does not move the request.
AfterDeadline(pc) == pc

\* requestTimeoutDuration passes while the endpoint handler runs: the bound
\* context is done; nothing stops the handler.
SvDeadline ==
    /\ svPc = "handler"
    /\ ctxBound /\ ~ctxReleased /\ ~ctxDone
    /\ ctxDone' = TRUE
    /\ svPc' = AfterDeadline(svPc)
    /\ UNCHANGED <<swStatus, swLength, sentStatus, sentBytes, calls,
                   exitKind, ctxBound, ctxReleased, logLines, serveRest>>

\* The endpoint handler returns.
SvHandlerReturn ==
    /\ svPc = "handler"
    /\ exitKind' = "return"
    /\ svPc' = "binderExit"
    /\ UNCHANGED <<swStatus, swLength, sentStatus, sentBytes, calls, ctxBound,
                   ctxDone, ctxReleased, logLines, serveRest>>

\* The endpoint handler panics.
SvHandlerPanic ==
    /\ svPc = "handler"
    /\ exitKind' = "panic"
    /\ svPc' = "binderExit"
    /\ UNCHANGED <<swStatus, swLength, sentStatus, sentBytes, calls, ctxBound,
                   ctxDone, ctxReleased, logLines, serveRest>>

\* The frame of addRequestTimeout is left, by return or by the panic going
\* through it: its deferred call runs.
SvBinderExit ==
    /\ svPc = "binderExit"
    /\ ctxReleased' = CancelRuns(exitKind)
    /\ svPc' = "loggerExit"
    /\ UNCHANGED <<swStatus, swLength, sentStatus, sentBytes, calls, exitKind,
                   ctxBound, ctxDone, logLines, serveRest>>

\* The frame of logHTTPRequest is left: after a return of the wrapped handler
\* the line is logged and the server completes the response; a panic goes
\* through to the server, which drops the connection.
SvLoggerExit ==
    /\ svPc = "loggerExit"
    /\ logLines' = IF LogsLine(exitKind)
                   THEN Append(logLines, <<swStatus, swLength>>)
                   ELSE logLines
    /\ sentStatus' = IF exitKind = "return" THEN SentImplicit(sentStatus) ELSE sentStatus
    /\ svPc' = IF exitKind = "return" THEN "done" ELSE "panicked"
    /\ UNCHANGED <<swStatus, swLength, sentBytes, calls, exitKind, ctxBound,
                   ctxDone, ctxReleased, serveRest>>

ServeNext ==
    \/ SvLoggerEnter
    \/ SvBinderEnter
    \/ \E code \in HandlerStatuses : SvWriteHeader(code)
    \/ \E size \in BodySizes : \E n \in 0..size : SvWrite(size, n)
    \/ SvDeadline
    \/ SvHandlerReturn
    \/ SvHandlerPanic
    \/ SvBinderExit
    \/ SvLoggerExit

(***************************************************************************)
(* The endpoint handlers of the primary server (handlers.go): healthCheck, *)
(* indexHandler and callHandler with getJSONResponse.  The called object   *)
(* is modelled by the set of its keys.                                     *)
(***************************************************************************)
\* Values of the url query parameter: r.URL.Query()["url"], <<>> when the
\* parameter is missing; a value is a sequence of characters.
UrlParams ==
    { <<>>, << <<>> >>, << <<"u">> >>, << <<"u">>, <<"v">> >>, << <<>>, <<"u">> >> }

\* What the outbound call does: DefaultHTTPClient.Get fails, reading the body
\* fails, the body is no JSON, the body is JSON.
Outcomes == {"getError", "readError", "notJSON", "json"}

\* getJSONResponse calling the url whatever the parameter is.
GetJSONResponseUnvalidated(params, outcome) ==
    CASE outcome = "getError"  -> {"url", "error"}
      [] outcome = "readError" -> {"url", "error"}
      [] outcome = "notJSON"   -> {"url", "error", "response_raw"}
      [] outcome = "json"      -> {"url", "response"}

\* getJSONResponse(r): the keys of the map it returns.
GetJSONResponse(params, outcome) ==
    IF Len(params) = 0 \/ Len(params) # 1 \/ Len(params[1]) < 1
    THEN {"error"}
    ELSE CASE outcome = "getError"  -> {"url", "error"}
           [] outcome = "readError" -> {"url", "error"}
           [] outcome = "notJSON"   -> {"url", "error", "response_raw"}
           [] outcome = "json"      -> {"url", "response"}

\* The handler the router has for a path.
HandlerOf(path) ==
    CASE path \in {"/_ah/health/", "/_ah/ready/"} -> "healthCheck"
      [] path = "/call/"                          -> "callHandler"
      [] path = "/"                               -> "indexHandler"

CallOff ==
    /\ cPath = "/"
    /\ cParams = <<>>
    /\ cOutcome = "json"
    /\ cPc = "off"
    /\ cStatus = 0
    /\ cResponse = {}
    /\ called = {}
    /\ httpGets = 0

CallInit ==
    /\ cPath \in PrimaryRoutes
    /\ cParams \in UrlParams
    /\ cOutcome \in Outcomes
    /\ cPc = "start"
    /\ cStatus = 0
    /\ cResponse = {}
    /\ called = {}
    /\ httpGets = 0

\* w.WriteHeader(http.StatusOK): the first statement of healthCheck, the
\* second of indexHandler and callHandler.
CallWriteHeader ==
    /\ cPc = "start"
    /\ cStatus' = SentAfterWriteHeader(cStatus, StatusOK)
    /\ cPc' = IF HandlerOf(cPath) = "healthCheck" THEN "return" ELSE "info"
    /\ UNCHANGED <<cPath, cParams, cOutcome, cResponse, called, httpGets, callRest>>

\* response["service"] = getServiceInfo(s); response["request"] = getRequestInfo(r)
CallInfo ==
    /\ cPc = "info"
    /\ cResponse' = {"service", "request"}
    /\ cPc' = IF HandlerOf(cPath) = "callHandler" THEN "call" ELSE "encode"
    /\ UNCHANGED <<cPath, cParams, cOutcome, cStatus, called, httpGets, callRest>>

\* response["called"] = getJSONResponse(r)
CallGetJSONResponse ==
    /\ cPc = "call"
    /\ called' = GetJSONResponse(cParams, cOutcome)
    /\ httpGets' = IF "url" \in called' THEN httpGets + 1 ELSE httpGets
    /\ cResponse' = cResponse \cup {"called"}
    /\ cPc' = "encode"
    /\ UNCHANGED <<cPath, cParams, cOutcome, cStatus, callRest>>

\* json.NewEncoder(w).Encode(response): the body is written, the status sent
\* stays the one set before.
CallEncode ==
    /\ cPc = "encode"
    /\ cStatus' = SentImplicit(cStatus)
    /\ cPc' = "return"
    /\ UNCHANGED <<cPath, cParams, cOutcome, cResponse, called, httpGets, callRest>>

\* The handler returns.
CallReturn ==
    /\ cPc = "return"
    /\ cPc' = "done"
    /\ UNCHANGED <<cPath, cParams, cOutcome, cStatus, cResponse, called, httpGets,
                   callRest>>

CallNext ==
    \/ CallWriteHeader
    \/ CallInfo
    \/ CallGetJSONResponse
    \/ CallEncode
    \/ CallReturn

(***************************************************************************)
(* getServiceLabels (handlers.go) called by the goroutines of requests     *)
(* that are served at the same time.  The global podLabels is nil or a map,*)
(* modelled by the set of its keys; the goroutines' steps interleave, as   *)
(* nothing synchronises them.                                              *)
(***************************************************************************)
Requests == 1..MaxRequests

\* The keys of the lines of the labels file.
LabelFile == <<"app", "version">>

LabelsOff ==
    /\ fileOk = TRUE
    /\ podLabelsNil = TRUE
    /\ podLabels = {}
    /\ fileOpens = 0
    /\ lblPc = [g \in Requests |-> "off"]
    /\ scanned = [g \in Requests |-> 0]
    /\ returned = [g \in Requests |-> {}]

LabelsInit ==
    /\ fileOk \in BOOLEAN
    /\ podLabelsNil = TRUE
    /\ podLabels = {}
    /\ fileOpens = 0
    /\ lblPc = [g \in Requests |-> "idle"]
    /\ scanned = [g \in Requests |-> 0]
    /\ returned = [g \in Requests |-> {}]

\* The handler of a request calls getServiceInfo, which calls getServiceLabels.
LblCall(g) ==
    /\ lblPc[g] = "idle"
    /\ lblPc' = [lblPc EXCEPT ![g] = "check"]
    /\ UNCHANGED <<fileOk, podLabelsNil, podLabels, fileOpens, scanned, returned,
                   labelsRest>>

\* if podLabels == nil {
LblCheck(g) ==
    /\ lblPc[g] = "check"
    /\ lblPc' = [lblPc EXCEPT ![g] = IF podLabelsNil THEN "make" ELSE "return"]
    /\ UNCHANGED <<fileOk, podLabelsNil, podLabels, fileOpens, scanned, returned,
                   labelsRest>>

\* podLabels = make(map[string]string)
LblMake(g) ==
    /\ lblPc[g] = "make"
    /\ podLabelsNil' = FALSE
    /\ podLabels' = {}
    /\ lblPc' = [lblPc EXCEPT ![g] = "open"]
    /\ UNCHANGED <<fileOk, fileOpens, scanned, returned, labelsRest>>

\* file, err := os.Open(filename); on an error the error is stored under
\* "error" and podLabels is returned.
LblOpen(g) ==
    /\ lblPc[g] = "open"
    /\ fileOpens' = fileOpens + 1
    /\ IF fileOk
       THEN /\ lblPc' = [lblPc EXCEPT ![g] = "scan"]
            /\ UNCHANGED podLabels
       ELSE /\ lblPc' = [lblPc EXCEPT ![g] = "return"]
            /\ podLabels' = podLabels \cup {"error"}
    /\ UNCHANGED <<fileOk, podLabelsNil, scanned, returned, labelsRest>>

\* for scanner.Scan() { ...; podLabels[pair[0]] = pair[1] }: one line.
LblScan(g) ==
    /\ lblPc[g] = "scan"
    /\ scanned[g] < Len(LabelFile)
    /\ scanned' = [scanned EXCEPT ![g] = @ + 1]
    /\ podLabels' = podLabels \cup {LabelFile[scanned[g] + 1]}
    /\ UNCHANGED <<fileOk, podLabelsNil, fileOpens, lblPc, returned, labelsRest>>

\* scanner.Scan() returns false: the file is closed.
LblScanEnd(g) ==
    /\ lblPc[g] = "scan"
    /\ scanned[g] = Len(LabelFile)
    /\ lblPc' = [lblPc EXCEPT ![g] = "return"]
    /\ UNCHANGED <<fileOk, podLabelsNil, podLabels, fileOpens, scanned, returned,
                   labelsRest>>

\* return podLabels: the caller has the global map, with the keys it has now.
LblReturn(g) ==
    /\ lblPc[g] = "return"
    /\ returned' = [returned EXCEPT ![g] = podLabels]
    /\ lblPc' = [lblPc EXCEPT ![g] = "done"]
    /\ UNCHANGED <<fileOk, podLabelsNil, podLabels, fileOpens, scanned, labelsRest>>

LabelsNext ==
    \E g \in Requests :
       \/ LblCall(g)
       \/ LblCheck(g)
       \/ LblMake(g)
       \/ LblOpen(g)
       \/ LblScan(g)
       \/ LblScanEnd(g)
       \/ LblReturn(g)

(***************************************************************************)
(* Specifications.                                                         *)
(***************************************************************************)
LifecycleOff ==
    /\ envDevelopment = <<>>
    /\ LifecycleInit

\* No request is modelled along with the lifecycle.
RequestOff == HeaderOff /\ ServeOff /\ CallOff /\ LabelsOff

Init == LifecycleInit /\ ChainOff /\ RequestOff

Next == LifecycleNext

\* The lifecycle of the process.
Spec == Init /\ [][Next]_vars

\* One request through a handler composed by adapt.
ChainSpecInit == LifecycleOff /\ ChainInit /\ RequestOff

ChainSpec == ChainSpecInit /\ [][ChainNext]_vars

\* One request through the handler of the primary server.
HeaderSpecInit ==
    LifecycleOff /\ ChainOff /\ HeaderInit /\ ServeOff /\ CallOff /\ LabelsOff

HeaderSpec == HeaderSpecInit /\ [][HeaderNext]_vars

\* One request through the chain of the router.
ServeSpecInit ==
    LifecycleOff /\ ChainOff /\ HeaderOff /\ ServeInit /\ CallOff /\ LabelsOff

ServeSpec == ServeSpecInit /\ [][ServeNext]_vars

\* One request served by an endpoint handler.
CallSpecInit ==
    LifecycleOff /\ ChainOff /\ HeaderOff /\ ServeOff /\ CallInit /\ LabelsOff

CallSpec == CallSpecInit /\ [][CallNext]_vars

\* Requests that call getServiceLabels at the same time.
LabelsSpecInit ==
    LifecycleOff /\ ChainOff /\ HeaderOff /\ ServeOff /\ CallOff /\ LabelsInit

LabelsSpec == LabelsSpecInit /\ [][LabelsNext]_vars

(***************************************************************************)
(* Fair scheduling: a goroutine that can take a step eventually takes one, *)
(* and time passes.  Nothing is assumed of the environment (signals,       *)
(* clients, listener failures).                                            *)
(***************************************************************************)
ProgramStep ==
    \/ MainStartLiveness \/ MainTelemetry \/ MainSpawnCoordinator
    \/ MainListen \/ MainServe \/ MainServeReturns \/ MainAllConsClosed
    \/ MainShutdownLiveness \/ MainLivenessPollReturns \/ MainLivenessTimesOut
    \/ MainExit
    \/ LiveListen \/ LiveServe \/ LiveServeReturns
    \/ SigNotify \/ SigReceive \/ SigWake \/ SigShutdownPrimary
    \/ SigPrimaryPollReturns \/ SigPrimaryTimesOut \/ SigCloseChan \/ SigStop
    \/ Tick

LiveSpec == Init /\ [][Next]_vars /\ WF_vars(ProgramStep)

(***************************************************************************)
(* Properties of the shutdown lifecycle.                                   *)
(***************************************************************************)
IsPrefix(p, q) == Len(p) <= Len(q) /\ \A i \in 1..Len(p) : p[i] = q[i]

StagesWithDelay ==
    <<"signal", "delayDone", "primaryShutdown", "primaryReturned",
      "livenessShutdown", "livenessReturned", "exit">>

StagesWithoutDelay ==
    <<"signal", "primaryShutdown", "primaryReturned",
      "livenessShutdown", "livenessReturned", "exit">>

BothServing == \A s \in Servers : srvState[s] = "serving"

\* The process was ended from outside the shutdown sequence: a fatal listener
\* or exporter failure, or a signal with no handler installed.
EndedByEnvironment == procState \in {"fatal", "killed"}

\* C1: the shutdown stages happen in one fixed order: signal, the delay (when
\* it applies), the call of the primary Shutdown, its return, the call of the
\* liveness Shutdown, its return, the exit; and the liveness Shutdown is never
\* called while the primary Shutdown has not returned, whatever
\* ListenAndServe of the primary server has done.
C1_StagesInFixedOrder ==
    /\ IsPrefix(stages, StagesWithDelay) \/ IsPrefix(stages, StagesWithoutDelay)
    /\ shutCalls["liveness"] > 0 => shutResult["primary"] # "none"
    /\ pcMain \in {"deferred", "livePolling", "liveReturned"} => allConsClosed

\* C1 witness: a complete run with the delay in which ListenAndServe returned
\* while the primary Shutdown was still waiting, up to its bound.
C1_Witness ==
    /\ procState = "exit0"
    /\ stages = StagesWithDelay
    /\ shutResult["primary"] = "err"

\* C2: once the signal is received, as long as the liveness server has been
\* started and its own Shutdown has not been called, it is serving; and every
\* response it gave on the health endpoint has status 200.
C2_LivenessServesUntilOwnShutdown ==
    /\ (Alive /\ sinceSig >= 0 /\ pcLive = "serve" /\ shutCalls["liveness"] = 0)
          => Accepting("liveness")
    /\ \A c \in ConnIds("liveness") :
          (resp["liveness"][c] # <<>> /\ resp["liveness"][c][1] = "/_ah/health/")
             => resp["liveness"][c][2] = 200

\* C2 witness: a health probe accepted and answered 200 while the primary
\* server is draining.
C2_Witness ==
    /\ Alive /\ pcSig = "polling"
    /\ "drain" \in acceptPhase["liveness"]
    /\ resp["liveness"][1] = <<"/_ah/health/", 200>>

\* C3: the primary server accepts no connection from the call of its Shutdown
\* on, hence none once delay + bound seconds have passed since the signal;
\* during the delay it keeps accepting.
C3_PrimaryRefusesFromShutdownOn ==
    /\ sinceSig >= PreShutdownDelay + PrimaryShutdownBound => ~Accepting("primary")
    /\ shutCalls["primary"] > 0 => ~Accepting("primary")
    /\ "shutdown" \notin acceptPhase["primary"]
    /\ (Alive /\ pcSig = "sleep" /\ pcMain = "serve") => Accepting("primary")

\* C3 witness: a connection was accepted during the delay, and delay + bound
\* seconds have passed since the signal.
C3_Witness ==
    /\ Alive
    /\ "delay" \in acceptPhase["primary"]
    /\ calledAt = PreShutdownDelay
    /\ sinceSig >= PreShutdownDelay + PrimaryShutdownBound

C5_SignalLeadsToExit ==
    (Alive /\ BothServing /\ (sigChan > 0 \/ sinceSig >= 0))
       ~> ((procState = "exit0" /\ stages \in {StagesWithDelay, StagesWithoutDelay})
             \/ EndedByEnvironment)

\* C5 witness: the exit is reached although a request in flight never
\* finished: the primary Shutdown returned by its bound.
C5_Witness ==
    /\ procState = "exit0"
    /\ shutResult["primary"] = "err"
    /\ \E c \in ConnIds("primary") : conn["primary"][c] = "killed"
    /\ shutResult["liveness"] = "nil"

\* C6: an error of either Shutdown is not retried (each Shutdown is called at
\* most once), skips no later stage (main is released once the coordinator has
\* dealt with the result, and a normal exit has seen both Shutdown calls) and
\* is followed by the normal exit, unless the environment ends the process
\* first.
C6_ShutdownErrorsOnlyLogged ==
    /\ [](\A s \in Servers : shutCalls[s] <= 1)
    /\ [](procState = "exit0" => \A s \in Servers : shutCalls[s] = 1)
    /\ [](pcSig \in {"stop", "done"} => allConsClosed)
    /\ (\E s \in Servers : shutResult[s] = "err")
          ~> (procState = "exit0" \/ EndedByEnvironment)

\* C6 witness: a normal exit after both Shutdown calls returned an error.
C6_Witness ==
    /\ procState = "exit0"
    /\ \A s \in Servers : shutResult[s] = "err" /\ shutCalls[s] = 1

Rank(state) ==
    CASE state = "starting" -> 0
      [] state = "serving"  -> 1
      [] state = "draining" -> 2
      [] state = "stopped"  -> 3

\* C7: no step moves a server to an earlier state of
\* starting, serving, draining, stopped.
C7_ServerStatesOnlyForward ==
    [][\A s \in Servers : Rank(srvState'[s]) >= Rank(srvState[s])]_vars

\* C7 witness: both servers have been serving, then draining up to the bound,
\* and are stopped.
C7_Witness ==
    /\ \A s \in Servers : srvState[s] = "stopped" /\ shutResult[s] = "err"

\* The values of DEVELOPMENT that are an integer other than 0.
NonzeroEnv == envDevelopment \notin {<<>>, <<"0">>, <<"1", "x">>}

\* The values of DEVELOPMENT that are the integer 1.
OneEnv == envDevelopment \in {<<"1">>, <<"+", "1">>}

\* C8, as claimed: the primary Shutdown is called with no delay whenever
\* DEVELOPMENT is nonzero, and after the 10 s delay otherwise.
C8_AsClaimed ==
    calledAt >= 0 =>
       IF NonzeroEnv
       THEN calledAt = 0 /\ "delayDone" \notin Range(stages)
       ELSE calledAt >= PreShutdownDelay /\ "delayDone" \in Range(stages)

\* C8, amended: the primary Shutdown is called with no delay exactly when
\* DEVELOPMENT is the integer 1, and after the 10 s delay in every other case.
C8_DelayUnlessDevelopmentIsOne ==
    calledAt >= 0 =>
       IF OneEnv
       THEN calledAt = 0 /\ "delayDone" \notin Range(stages)
       ELSE calledAt >= PreShutdownDelay /\ "delayDone" \in Range(stages)

\* C8 witness: DEVELOPMENT=2 and the primary Shutdown called after the delay.
C8_Witness ==
    /\ envDevelopment = <<"2">>
    /\ calledAt = PreShutdownDelay
    /\ "delayDone" \in Range(stages)

(***************************************************************************)
(* Properties of the middleware chain.                                     *)
(***************************************************************************)
RECURSIVE Reverse(_)
Reverse(q) == IF q = <<>> THEN <<>> ELSE Append(Reverse(Tail(q)), Head(q))

Tagged(tag, q) == [i \in 1..Len(q) |-> <<tag, q[i]>>]

\* What a request must run through a handler composed from the wrappers mws:
\* the wrappers' pre-processing from the last of the list to the first, the
\* endpoint once, the post-processing from the first to the last.
ExpectedTrace(mws) ==
    Tagged("pre", Reverse(mws)) \o <<<<"endpoint">>>> \o Tagged("post", mws)

\* C9: for every list of wrappers, the handler adapt returns runs the last
\* wrapper of the list outermost: at every point of a request the trace is a
\* prefix of the expected one, and the whole of it when the request is served.
C9_LastWrapperOutermost ==
    /\ IsPrefix(trace, ExpectedTrace(middleware))
    /\ chainPc = "done" => trace = ExpectedTrace(middleware)

\* C9 witness: a request served through three different wrappers.
C9_Witness ==
    /\ chainPc = "done"
    /\ middleware = <<"other", "addRequestTimeout", "logHTTPRequest">>
    /\ Len(trace) = 7

\* The frames of the handler that run wrapper w and have been entered.
FramesOf(w) == {k \in 1..Len(seen) : handler[k] = w}

\* C10, as claimed: in the chain of the router, the request the access logger
\* handles carries the 60 s deadline.
C10_AsClaimed ==
    middleware = RouterMiddleware =>
       \A k \in FramesOf("logHTTPRequest") : seen[k] = 60

\* C10, amended: in the chain of the router the access logger is outermost and
\* the request it handles carries no deadline; the 60 s deadline is carried by
\* the request the endpoint handler is given.
C10_LoggerOutsideTimeout ==
    middleware = RouterMiddleware =>
       /\ \A k \in FramesOf("logHTTPRequest") : k = 1 /\ seen[k] = NoDeadline
       /\ \A k \in FramesOf("endpoint") : seen[k] = 60

\* C10 witness: a request served by the chain of the router.
C10_Witness ==
    /\ middleware = RouterMiddleware
    /\ chainPc = "done"
    /\ FramesOf("logHTTPRequest") # {}
    /\ FramesOf("endpoint") # {}

(***************************************************************************)
(* Properties of the trace header normalizer.                              *)
(***************************************************************************)
\* The digits ds (in base b, the first one the highest) times m, plus a < b.
RECURSIVE MulAdd(_, _, _, _)
MulAdd(ds, b, m, a) ==
    IF ds = <<>> THEN (IF a = 0 THEN <<>> ELSE <<a>>)
    ELSE LET cur == ds[Len(ds)] * m + a
         IN  Append(MulAdd(SubSeq(ds, 1, Len(ds) - 1), b, m, cur \div b), cur % b)

\* The number a string of decimal characters denotes, as hexadecimal digits.
RECURSIVE DecimalStringValue(_, _)
DecimalStringValue(d, acc) ==
    IF d = <<>> THEN acc
    ELSE DecimalStringValue(Tail(d), MulAdd(acc, 16, 10, CharDigit[Head(d)]))

\* d is the base-10 string of a number: decimal digits, no leading zero.
IsDecimalString(d) ==
    /\ d # <<>>
    /\ \A i \in 1..Len(d) : d[i] \in DOMAIN CharDigit /\ CharDigit[d[i]] < 10
    /\ Len(d) > 1 => d[1] # "0"

\* The k low hexadecimal digits of n.
LowDigits(n, k) ==
    LET padded == Rep(0, k) \o n
    IN  SubSeq(padded, Len(padded) - k + 1, Len(padded))

\* d is the base-10 string of n mod 2^32.
IsDecimalOfLow32(d, n) ==
    /\ IsDecimalString(d)
    /\ Len(DecimalStringValue(d, <<>>)) <= 8
    /\ LowDigits(DecimalStringValue(d, <<>>), 8) = LowDigits(n, 8)

\* The inbound header has a span id that fails the decimal parse and passes
\* the hexadecimal one.
HexOnlySpan ==
    /\ parts.form = "wellformed"
    /\ ParseUint(parts.span, 10).err
    /\ ~ParseUint(parts.span, 16).err

\* The frames that are given the request after the normalizer.
LaterFrames ==
    {"ochttp.Handler", "mux.Router", "logHTTPRequest", "addRequestTimeout", "endpoint"}

\* C11: every frame other than the normalizer is given the request after the
\* normalizer has written the header: the value it observes is the normalized
\* one, and by the end of the request the tracing handler, the router, the
\* access logger, the timeout binder and the endpoint have all observed it.
C11_HeaderNormalizedFirst ==
    /\ \A i \in 1..Len(observed) :
          nextCalls = 1 /\ observed[i][2] = FixTracingHeader(inbound)
    /\ hdrPc = "done" => {observed[i][1] : i \in 1..Len(observed)} = LaterFrames

\* C11 witness: a request whose header the normalizer rewrote has been served
\* through all the frames.
C11_Witness ==
    /\ hdrPc = "done"
    /\ FixTracingHeader(inbound) # inbound
    /\ Len(observed) = 5

\* C12: for a header trace/span;flags whose span id is hexadecimal only, the
\* header the normalizer forwards is trace/d;flags, d the base-10 string of
\* the span id's value mod 2^32.
C12_HexSpanRewrittenLow32 ==
    (nextCalls > 0 /\ HexOnlySpan) =>
       LET d == SubSeq(header, Len(parts.trace) + 2,
                       Len(header) - Len(parts.flags) - 1)
       IN  /\ header = parts.trace \o <<"/">> \o d \o <<";">> \o parts.flags
           /\ IsDecimalOfLow32(d, ParseUint(parts.span, 16).val)

\* C12 witness: a span id of 2^32 + 0xbfffffff is forwarded as 3221225471.
C12_Witness ==
    /\ hdrPc = "done"
    /\ parts.span = <<"1", "b">> \o Rep("f", 7)
    /\ parts.trace = <<"a", "b">>
    /\ header = <<"a", "b", "/", "3", "2", "2", "1", "2", "2", "5", "4", "7", "1", ";">>
                   \o parts.flags

\* C13: in every other case the header the next handler is given is the
\* inbound one; and in every case the normalizer calls the next handler, once.
C13_OtherHeadersForwardedAsIs ==
    /\ (nextCalls > 0 /\ ~HexOnlySpan) => header = inbound
    /\ nextCalls <= 1
    /\ hdrDepth > 0 => nextCalls = 1

\* C13 witness: a header with a hexadecimal span id but no ';' went through
\* as it came.
C13_Witness ==
    /\ hdrPc = "done"
    /\ inbound = <<"a", "/", "f", "f">>
    /\ observed[5] = <<"endpoint", inbound>>

(***************************************************************************)
(* Properties of the access logger and the timeout binder.                 *)
(***************************************************************************)
WroteHeader == \E i \in 1..Len(calls) : calls[i][1] = "WriteHeader"

RECURSIVE BodyLength(_)
BodyLength(cs) ==
    IF cs = <<>> THEN 0
    ELSE (IF Head(cs)[1] = "Write" THEN Head(cs)[3] ELSE 0) + BodyLength(Tail(cs))

\* The status of the first status-setting call: the first WriteHeader, or the
\* implicit 200 of a Write that came first.
FirstStatus == IF calls[1][1] = "WriteHeader" THEN calls[1][2] ELSE 200

\* C14, as claimed: when the handler has written no explicit status, the line
\* logged has status 200 and the length of the body, a body of length 0
\* included.
C14_ImplicitStatusLoggedAs200 ==
    (svPc = "done" /\ ~WroteHeader) => logLines = << <<200, BodyLength(calls)>> >>

\* C15, as claimed: the status logged is the status of the handler's first
\* status-setting call, whatever WriteHeader calls come later.
C15_FirstStatusLogged ==
    (svPc = "done" /\ calls # <<>>) => logLines = << <<FirstStatus, swLength>> >>

\* C16: once the request has left the frame of the timeout binder, by the
\* handler's return or by its panic, with or without the deadline having
\* fired, cancel() of the context bound to it has been called.
C16_ContextReleasedOnEveryExit ==
    /\ svPc \in {"loggerExit", "done", "panicked"} => (ctxBound /\ ctxReleased)
    /\ ctxReleased => exitKind # "none"

\* C16 witness: the handler panicked after the deadline had fired, and the
\* context is released.
C16_Witness ==
    /\ svPc = "panicked"
    /\ ctxDone
    /\ ctxReleased

(***************************************************************************)
(* Properties of the endpoint handlers.                                    *)
(***************************************************************************)
\* The url parameter is missing, repeated or empty.
BadUrlParam ==
    \/ cParams = <<>>
    \/ Len(cParams) > 1
    \/ \E i \in 1..Len(cParams) : cParams[i] = <<>>

\* C17: on every documented endpoint the status of the response is 200
\* whatever the url parameter and the outbound call are like; and on /call/,
\* a missing, repeated or empty url parameter, a failed call, an unreadable
\* body and a body that is no JSON each leave an error field in the called
\* object.
C17_ErrorsReportedWithStatus200 ==
    /\ cStatus \in {0, 200}
    /\ cPc \in {"return", "done"} => cStatus = 200
    /\ (cPc = "done" /\ cPath = "/call/" /\ (BadUrlParam \/ cOutcome # "json"))
          => ("called" \in cResponse /\ "error" \in called)

\* C17 witness: /call/ with a url whose body is no JSON answered 200 with the
\* error and the raw body in the called object.
C17_Witness ==
    /\ cPc = "done"
    /\ cPath = "/call/"
    /\ cOutcome = "notJSON"
    /\ cStatus = 200
    /\ called = {"url", "error", "response_raw"}

(***************************************************************************)
(* Properties of the labels cache.                                         *)
(***************************************************************************)
\* C18, as claimed: whatever the number of requests and however they
\* overlap, the labels file is opened at most once.
C18_LabelsFileOpenedAtMostOnce == fileOpens <= 1

(***************************************************************************)
(* Repeated signals and listener failures.                                 *)
(***************************************************************************)
\* Number of times x is in the sequence seq.
Occurrences(seq, x) == Cardinality({i \in DOMAIN seq : seq[i] = x})

\* The coordinator is in the pre-shutdown delay or in the drain of the
\* primary server.
InDelayOrDrain == Alive /\ pcSig \in {"sleep", "callShutdown", "polling"}

\* What a further signal could disturb: the process, the position of the
\* coordinator and of main, the clock of the sequence and its stages.
SequenceState ==
    <<procState, pcSig, pcMain, pcLive, notified, sinceSig, calledAt, stages,
      shutCalls, shutResult, timer, srvState, conn, allConsClosed>>

\* C19: a signal that arrives during the pre-shutdown delay or the drain of
\* the primary server only fills the buffer of the channel: it changes nothing
\* of the sequence under way and does not end the process; Shutdown of the
\* primary server is called exactly when the delay has elapsed in full (at
\* once where no delay applies); no stage happens twice and Shutdown is called
\* at most once on each server; and a process that exits with status 0 has
\* gone through the signal, the delay where it applies, the primary shutdown
\* and the liveness shutdown exactly once each.
C19_SignalTransitionOneShot ==
    /\ [][(InDelayOrDrain /\ sigChan' > sigChan) => UNCHANGED SequenceState]_vars
    /\ [][InDelayOrDrain => procState' # "killed"]_vars
    /\ [](calledAt >= 0 =>
            calledAt = IF DelayApplies THEN PreShutdownDelay ELSE 0)
    /\ [](\A x \in Range(stages) : Occurrences(stages, x) = 1)
    /\ [](\A s \in Servers : shutCalls[s] <= 1)
    /\ [](procState = "exit0" =>
            /\ stages = IF DelayApplies THEN StagesWithDelay ELSE StagesWithoutDelay
            /\ \A s \in Servers : shutCalls[s] = 1)

\* C19 witness: a second signal sits in the buffer while the primary server
\* drains, after one signal was received and the full delay was slept.
C19_Witness ==
    /\ InDelayOrDrain /\ pcSig = "polling"
    /\ sigChan = 1
    /\ Occurrences(stages, "signal") = 1
    /\ calledAt = PreShutdownDelay

\* A listener has failed.
ListenerFailed == failed # <<>>

\* C20: when ListenAndServe of the primary or of the liveness server fails
\* with an error other than ErrServerClosed, the process is ended by the
\* fatal log call in that very step: the step itself completes no delay and
\* calls no Shutdown, nothing happens after it, the liveness Shutdown was
\* never called and main never reached its exit; when it is the bind that
\* failed, no delay was completed before it either, and a failed bind of the
\* primary server means its Shutdown was never called.
C20_ListenerFailureIsFatalAtOnce ==
    /\ [](ListenerFailed => procState = "fatal")
    /\ [][failed' # failed =>
            UNCHANGED <<stages, shutCalls, shutResult, sinceSig, calledAt>>]_vars
    /\ [][procState = "fatal" =>
            UNCHANGED <<stages, shutCalls, shutResult, sinceSig, calledAt>>]_vars
    /\ [](ListenerFailed =>
            /\ shutCalls["liveness"] = 0
            /\ Range(stages) \cap {"livenessShutdown", "livenessReturned", "exit"} = {})
    /\ [](ListenerFailed /\ failed[2] = "bind" =>
            /\ "delayDone" \notin Range(stages)
            /\ failed[1] = "primary" => shutCalls["primary"] = 0)

\* C20 witness: the primary listener fails while the coordinator sleeps
\* through the delay; the process is gone with only the signal on record.
C20_Witness ==
    /\ procState = "fatal"
    /\ failed = <<"primary", "serve">>
    /\ stages = <<"signal">>
    /\ sinceSig > 0

(***************************************************************************)
(* The deadline, the log line and the recorded length.                     *)
(***************************************************************************)
\* The frames outside the endpoint handler are being left or have been left.
OuterFramesFinishing == svPc \in {"binderExit", "loggerExit", "done", "panicked"}

\* The endpoint handler has ended by itself.
HandlerEnded == exitKind \in {"return", "panic"}

\* C21: the deadline makes the bound context done and does nothing else: the
\* handler is where it was, its writes and the response are untouched; a
\* handler running past the deadline leaves only by its own return or panic;
\* and the frames of the binder and of the logger are left, and the line is
\* logged, only after the handler has ended.
C21_DeadlineDoesNotAbortHandler ==
    /\ [][(ctxDone' /\ ~ctxDone) =>
            /\ svPc = "handler"
            /\ UNCHANGED <<svPc, exitKind, calls, swStatus, swLength,
                           sentStatus, sentBytes, logLines>>]_vars
    /\ [][(ctxDone /\ svPc = "handler" /\ svPc' # "handler") =>
            svPc' = "binderExit" /\ exitKind' \in {"return", "panic"}]_vars
    /\ [](OuterFramesFinishing => HandlerEnded)
    /\ [](logLines # <<>> => exitKind = "return")

\* C21 witness: the deadline fired while the handler ran; the handler
\* returned later and the request was completed and logged.
C21_Witness ==
    /\ svPc = "done"
    /\ ctxDone
    /\ exitKind = "return"
    /\ Len(logLines) = 1

\* The request has left the chain, by return or by a panic going through it.
RequestOver == svPc \in {"done", "panicked"}

\* C22, as claimed: every request that went through the chain has exactly one
\* line in the access log when it is over, and a line is logged only after
\* the wrapped handler has returned.
C22_OneLogLinePerRequest ==
    /\ RequestOver => Len(logLines) = 1
    /\ logLines # <<>> => exitKind = "return" /\ svPc = "done"

\* The Write calls of the handler that the underlying writer cut short.
ShortWrites == {i \in 1..Len(calls) : calls[i][1] = "Write" /\ calls[i][3] < calls[i][2]}

\* C23: at every point of a request the length recorded by the statusWriter is
\* the sum, over the Write calls made so far, of the number of bytes the
\* underlying writer reported as written, the count of a short write
\* included; it is the number of bytes sent on the response, and it is the
\* length in the line logged.
C23_LengthIsSumOfBytesWritten ==
    /\ svPc \notin {"off", "logger"} =>
            swLength = BodyLength(calls) /\ swLength = sentBytes
    /\ \A i \in 1..Len(logLines) : logLines[i][2] = BodyLength(calls)

\* C23 witness: a line is logged after several Write calls, one of them cut
\* short by the underlying writer after some bytes.
C23_Witness ==
    /\ svPc = "done"
    /\ Len(logLines) = 1
    /\ Cardinality({i \in 1..Len(calls) : calls[i][1] = "Write"}) >= 2
    /\ \E i \in ShortWrites : calls[i][3] > 0
    /\ logLines[1][2] = 3

(***************************************************************************)
(* What requests served at the same time see of the labels cache.          *)
(***************************************************************************)
\* The keys of the map once the file, or the failure to open it, is recorded.
CompleteLabels == IF fileOk THEN Range(LabelFile) ELSE {"error"}

\* Request h has made the map and is still putting entries into it.
WritingLabels(h) == lblPc[h] \in {"open", "scan"}

\* Request g is handed the global map, to be read for the response.
ReadingLabels(g) == lblPc[g] = "return"

\* C24, as claimed: every call of getServiceLabels returns the complete map,
\* and no request is handed the map while another request is still writing
\* entries into it.
C24_NoPartialCacheObserved ==
    /\ \A g \in Requests : lblPc[g] = "done" => returned[g] = CompleteLabels
    /\ \A g, h \in Requests :
            g # h => ~(ReadingLabels(g) /\ WritingLabels(h))

====
